---- MODULE Spec2Model ----
(***************************************************************************)
(* A model of tools/auth/orcid.go: the ORCID OAuth2 provider and its       *)
(* FetchAuthUser method, which turns an OAuth2 token into an AuthUser.     *)
(*                                                                         *)
(* Go strings are TLA+ strings.  A JSON document is its syntax tree, a     *)
(* Go pointer is a sequence of length 0 (nil) or 1, a Go map is a function *)
(* on its keys, and a Go error is a string, "" being the nil error.  The   *)
(* token's Expiry and the user's Expiry (line 118) are left out: nothing   *)
(* else in the method reads them.                                          *)
(***************************************************************************)
EXTENDS Integers, Sequences, FiniteSets, TLC

\* ------------------------------------------------------------------ bounds

\* The longest member list of a JSON object the profile endpoint answers with.
MaxMembers == 2

\* The number of FetchAuthUser activations that may be in progress at once on
\* the one provider instance.
MaxConcurrent == 2

Calls == 1..MaxConcurrent

\* The activation used when the provider is called by one caller at a time.
MainCall == CHOOSE c \in Calls : \A d \in Calls : c <= d

\* --------------------------------------------------------------- JSON syntax

JNull == [t |-> "null"]
JNum == [t |-> "number"]
JStr(s) == [t |-> "string", s |-> s]
JArr(elems) == [t |-> "array", elems |-> elems]
\* members: the object's "key": value pairs in the order they are written
JObj(members) == [t |-> "object", members |-> members]

\* A response body: bytes that are no JSON text at all, or a JSON value.
InvalidBody == [valid |-> FALSE, v |-> JNull]
JSONBody(v) == [valid |-> TRUE, v |-> v]

\* ------------------------------------------------------ encoding/json, typed

\* The Go types of the anonymous struct `extracted`, and for each struct type
\* the JSON key of every field with the field's name and type.
Fields(type) ==
    CASE type = "Extracted" ->
            ("name" :> [f |-> "Name", ty |-> "NameStruct"])
         @@ ("emails" :> [f |-> "Emails", ty |-> "EmailsStruct"])
      [] type = "NameStruct" ->
            ("given-names" :> [f |-> "GivenNames", ty |-> "ValueStruct"])
         @@ ("family-name" :> [f |-> "FamilyName", ty |-> "ValueStruct"])
         @@ ("credit-name" :> [f |-> "CreditName", ty |-> "ValueStruct"])
      [] type = "ValueStruct" ->
            ("value" :> [f |-> "Value", ty |-> "string"])
      [] type = "EmailsStruct" ->
            ("email" :> [f |-> "Email", ty |-> "EmailSlice"])
      [] type = "EmailEntry" ->
            ("email" :> [f |-> "Email", ty |-> "string"])

\* The zero value of each type: what `extracted := struct{...}{}` holds.
Zero(type) ==
    CASE type = "string" -> ""
      [] type = "ValueStruct" -> [Value |-> ""]
      [] type = "NameStruct" ->
            [GivenNames |-> [Value |-> ""], FamilyName |-> [Value |-> ""],
             CreditName |-> [Value |-> ""]]
      [] type = "EmailsStruct" -> [Email |-> <<>>]
      [] type = "EmailSlice" -> <<>>
      [] type = "EmailEntry" -> [Email |-> ""]
      [] type = "Extracted" ->
            [Name |-> [GivenNames |-> [Value |-> ""], FamilyName |-> [Value |-> ""],
                       CreditName |-> [Value |-> ""]],
             Emails |-> [Email |-> <<>>]]

RECURSIVE DecInto(_, _, _)
RECURSIVE DecMembers(_, _, _)
RECURSIVE DecElems(_, _)

\* json.Unmarshal of the value v into a Go value of the given type that holds
\* old: the value afterwards, and whether a type mismatch was recorded.  null
\* leaves a string or a struct as it is and makes a slice nil; a mismatch is
\* recorded, the value skipped and the decoding goes on.
DecInto(type, v, old) ==
    IF v.t = "null"
    THEN [err |-> FALSE, val |-> IF type = "EmailSlice" THEN <<>> ELSE old]
    ELSE IF type = "string"
    THEN IF v.t = "string" THEN [err |-> FALSE, val |-> v.s]
                           ELSE [err |-> TRUE, val |-> old]
    ELSE IF type = "EmailSlice"
    THEN IF v.t = "array" THEN DecElems(v.elems, [err |-> FALSE, val |-> <<>>])
                          ELSE [err |-> TRUE, val |-> old]
    ELSE IF v.t = "object" THEN DecMembers(type, v.members, [err |-> FALSE, val |-> old])
                           ELSE [err |-> TRUE, val |-> old]

\* The members of a JSON object, in order, into a struct: a key that names no
\* field is skipped, a key met twice is decoded twice into the same field.
DecMembers(type, ms, acc) ==
    IF ms = <<>> THEN acc
    ELSE LET key == Head(ms)[1]
             fs == Fields(type)
         IN  IF key \notin DOMAIN fs
             THEN DecMembers(type, Tail(ms), acc)
             ELSE LET fld == fs[key]
                      r == DecInto(fld.ty, Head(ms)[2], acc.val[fld.f])
                  IN  DecMembers(type, Tail(ms),
                                 [err |-> acc.err \/ r.err,
                                  val |-> [acc.val EXCEPT ![fld.f] = r.val]])

\* The elements of a JSON array, in order, appended to the slice.
DecElems(es, acc) ==
    IF es = <<>> THEN acc
    ELSE LET r == DecInto("EmailEntry", Head(es), Zero("EmailEntry"))
         IN  DecElems(Tail(es), [err |-> acc.err \/ r.err,
                                 val |-> Append(acc.val, r.val)])

\* json.Unmarshal(data, &extracted), lines 72-92
ParseTyped(body) ==
    IF ~body.valid THEN [err |-> TRUE, val |-> Zero("Extracted")]
    ELSE DecInto("Extracted", body.v, Zero("Extracted"))

\* ----------------------------------------------------- encoding/json, open

RECURSIVE ToAny(_)
RECURSIVE MapOf(_, _)
RECURSIVE SliceOf(_)

\* The Go value json.Unmarshal stores in an `any` for the JSON value v.
ToAny(v) ==
    CASE v.t = "null" -> [go |-> "nil"]
      [] v.t = "number" -> [go |-> "float64"]
      [] v.t = "string" -> [go |-> "string", s |-> v.s]
      [] v.t = "array" -> [go |-> "[]any", elems |-> SliceOf(v.elems)]
      [] v.t = "object" -> [go |-> "map[string]any", m |-> MapOf(v.members, <<>>)]

\* The members of a JSON object, in order, stored into the map acc: a key met
\* twice keeps the later value.
MapOf(ms, acc) ==
    IF ms = <<>> THEN acc
    ELSE LET key == Head(ms)[1]
         IN  MapOf(Tail(ms),
                   [k \in DOMAIN acc \cup {key} |->
                       IF k = key THEN ToAny(Head(ms)[2]) ELSE acc[k]])

SliceOf(es) ==
    IF es = <<>> THEN <<>> ELSE <<ToAny(Head(es))>> \o SliceOf(Tail(es))

\* The top-level keys the typed projection knows.
KnownKeys == {"name", "emails"}
KnownMember(m) == m[1] \in KnownKeys

\* Mutant: the map keeps only the members the typed projection knows.
ParseRawKnownKeys(body) ==
    IF ~body.valid THEN [err |-> TRUE, val |-> <<>>]
    ELSE IF body.v.t = "null" THEN [err |-> FALSE, val |-> <<>>]
    ELSE IF body.v.t = "object"
    THEN [err |-> FALSE, val |-> MapOf(SelectSeq(body.v.members, KnownMember), <<>>)]
    ELSE [err |-> TRUE, val |-> <<>>]

\* rawUser := map[string]any{}; json.Unmarshal(data, &rawUser), lines 67-70:
\* null makes the map nil (no key), anything but an object or null is an error.
ParseRaw(body) ==
    IF ~body.valid THEN [err |-> TRUE, val |-> <<>>]
    ELSE IF body.v.t = "null" THEN [err |-> FALSE, val |-> <<>>]
    ELSE IF body.v.t = "object" THEN [err |-> FALSE, val |-> MapOf(body.v.members, <<>>)]
    ELSE [err |-> TRUE, val |-> <<>>]

\* -------------------------------------------------------------------- inputs

\* ORCID iDs as the token endpoint returns them, and a string that is no iD.
IdA == "0000-0001-2345-6789"
IdB == "0000-0002-1825-0097"
IdBad == "%zz"

\* What token.Extra("orcid") can return: nil (no such field), a string, or a
\* value of another type.
Extras == {JNull, JNum, JStr(""), JStr(IdA), JStr(IdB), JStr(IdBad)}

\* The *oauth2.Token handed to FetchAuthUser.
Tokens ==
    {[orcid |-> e, AccessToken |-> "access", RefreshToken |-> "refresh"] : e \in Extras}

NoToken == [orcid |-> JNull, AccessToken |-> "", RefreshToken |-> ""]

\* {"value": s}
ValueObj(s) == JObj(<< <<"value", JStr(s)>> >>)

\* Values of the parts of the profile's "name" member.
GivenNamesValues == {ValueObj(""), ValueObj("Ada")}
FamilyNameValues == {JNull, ValueObj("Lovelace")}
CreditNameValues == {JNull, ValueObj(""), ValueObj("A. A. Lovelace")}

\* Values of a "name" member that is no object: null (a private name), a string.
NameNonObjects == {JNull, JStr("Ada")}

\* Values of the profile's "name" member: the three parts present, empty or
\* null in every combination, and the values that are no object.
NameValues ==
    {JObj(<< <<"given-names", g>>, <<"family-name", f>>, <<"credit-name", c>> >>) :
        g \in GivenNamesValues, f \in FamilyNameValues, c \in CreditNameValues}
    \cup NameNonObjects

EmailEntry(a) == JObj(<< <<"email", JStr(a)>> >>)

\* Email lists: zero, one and two addresses, the two in both orders.
EmailLists ==
    {<<>>, <<EmailEntry("a@x.com")>>,
     <<EmailEntry("a@x.com"), EmailEntry("b@x.com")>>,
     <<EmailEntry("b@x.com"), EmailEntry("a@x.com")>>}

\* An "emails" member whose "email" is no array.
EmailsNonLists == {JObj(<< <<"email", JStr("a@x.com")>> >>)}

\* Values of the profile's "emails" member.
EmailsValues == {JObj(<< <<"email", JArr(l)>> >>) : l \in EmailLists} \cup EmailsNonLists

\* Members with a key the typed projection does not know.
OtherMembers == {<<"path", JStr("/person")>>}

\* The members a profile document is made of.
Members ==
    {<<"name", v>> : v \in NameValues}
    \cup {<<"emails", v>> : v \in EmailsValues}
    \cup OtherMembers

SeqsUpTo(S, n) == UNION {[1..k -> S] : k \in 0..n}

\* Bodies that are no JSON object: no JSON at all, null, an array.
NonObjectBodies == {InvalidBody, JSONBody(JNull), JSONBody(JArr(<<>>))}

\* The response bodies the profile endpoint may answer with.
Bodies ==
    NonObjectBodies \cup {JSONBody(JObj(ms)) : ms \in SeqsUpTo(Members, MaxMembers)}

\* What sendRawUserInfoRequest returns: (data, nil) or (nil, err).
FetchFailed == [err |-> "fetch failed", data |-> InvalidBody]
Fetched(body) == [err |-> "", data |-> body]

FetchErrors == {FetchFailed}

\* Every answer of sendRawUserInfoRequest: an error, or any of the bodies.
Answers == FetchErrors \cup {Fetched(b) : b \in Bodies}

\* ------------------------------------------------------------ FetchAuthUser

HexDigits ==
    {"0", "1", "2", "3", "4", "5", "6", "7", "8", "9",
     "a", "b", "c", "d", "e", "f", "A", "B", "C", "D", "E", "F"}

IsHex(ch) == ch \in HexDigits

\* http.NewRequestWithContext parses the URL and fails on a "%" that does not
\* start a two-digit hexadecimal escape.
URLParses(u) ==
    \A i \in 1..Len(u) :
        SubSeq(u, i, i) = "%" =>
            /\ i + 2 <= Len(u)
            /\ IsHex(SubSeq(u, i + 1, i + 1))
            /\ IsHex(SubSeq(u, i + 2, i + 2))

\* iD, ok := token.Extra("orcid").(string): the string and true, or "" and false
AssertString(e) ==
    IF e.t = "string" THEN [iD |-> e.s, ok |-> TRUE] ELSE [iD |-> "", ok |-> FALSE]

\* Mutant: the check forgets the empty string.
IdentifierOKNoEmptyCheck(a) == a.ok

\* The identifier check of line 49, negated: the call goes on.
IdentifierOK(a) == a.ok /\ a.iD # ""

\* `https://pub.orcid.org/v3.0/` + iD + `/person`
UserInfoURLOf(id) == "https://pub.orcid.org/v3.0/" \o id \o "/person"

\* The request of lines 56-61.
NoRequest == [method |-> "", url |-> "", Accept |-> "", ContentType |-> ""]
NewRequest(u) ==
    [method |-> "GET", url |-> u,
     Accept |-> "application/json", ContentType |-> "application/json"]

\* Mutant: family-name is appended whether or not it is empty.
NameOfAlwaysFamily(extracted) ==
    LET credit == extracted.Name.CreditName.Value
        given == extracted.Name.GivenNames.Value
        family == extracted.Name.FamilyName.Value
    IN  IF credit = "" THEN given \o " " \o family ELSE credit

\* lines 94-101
NameOf(extracted) ==
    LET credit == extracted.Name.CreditName.Value
        given == extracted.Name.GivenNames.Value
        family == extracted.Name.FamilyName.Value
    IN  IF credit = ""
        THEN IF family # "" THEN given \o " " \o family ELSE given
        ELSE credit

\* Mutant: the last entry of the list is taken.
EmailOfLast(extracted) ==
    IF Len(extracted.Emails.Email) > 0
    THEN extracted.Emails.Email[Len(extracted.Emails.Email)].Email ELSE ""

\* lines 103-106
EmailOf(extracted) ==
    IF Len(extracted.Emails.Email) > 0 THEN extracted.Emails.Email[1].Email ELSE ""

\* Mutant: Username is filled with the display name.
AuthUserNameAsUsername(name, id, email, rawUser, tok) ==
    [Name |-> name, Username |-> name, Email |-> email, RawUser |-> rawUser,
     AccessToken |-> tok.AccessToken, RefreshToken |-> tok.RefreshToken, Id |-> id]

\* lines 108-116
AuthUser(name, id, email, rawUser, tok) ==
    [Name |-> name, Username |-> id, Email |-> email, RawUser |-> rawUser,
     AccessToken |-> tok.AccessToken, RefreshToken |-> tok.RefreshToken, Id |-> id]

\* What FetchAuthUser returns: (user, nil) or (nil, err).
Failure(e) == [user |-> <<>>, err |-> e]
Success(u) == [user |-> <<u>>, err |-> ""]
NoResult == [user |-> <<>>, err |-> ""]

\* Mutant: the error of the second parse is dropped.
ResolveIgnoringTypedError(body, id, tok) ==
    LET raw == ParseRaw(body)
        typed == ParseTyped(body)
    IN  IF raw.err THEN Failure("json: cannot unmarshal into map[string]any")
        ELSE Success(AuthUser(NameOf(typed.val), id, EmailOf(typed.val), raw.val, tok))

\* lines 67-120: both parses of the same bytes, the normalisation, the result
Resolve(body, id, tok) ==
    LET raw == ParseRaw(body)
        typed == ParseTyped(body)
    IN  IF raw.err THEN Failure("json: cannot unmarshal into map[string]any")
        ELSE IF typed.err THEN Failure("json: cannot unmarshal into struct")
        ELSE Success(AuthUser(NameOf(typed.val), id, EmailOf(typed.val), raw.val, tok))

\* ------------------------------------------------------------ profile server

\* The documents the profile endpoint holds for the two iDs.
ProfileA ==
    JSONBody(JObj(<<
        <<"name", JObj(<< <<"given-names", ValueObj("Ada")>>,
                          <<"family-name", ValueObj("Lovelace")>>,
                          <<"credit-name", ValueObj("")>> >>)>>,
        <<"emails", JObj(<< <<"email", JArr(<<EmailEntry("ada@example.org")>>)>> >>)>> >>))
ProfileB ==
    JSONBody(JObj(<<
        <<"name", JObj(<< <<"given-names", ValueObj("Bob")>>,
                          <<"family-name", JNull>>,
                          <<"credit-name", ValueObj("B. Builder")>> >>)>>,
        <<"emails", JObj(<< <<"email", JArr(<<EmailEntry("bob@example.org")>>)>> >>)>>,
        <<"path", JStr("/person")>> >>))

ProfileOf(id) == IF id = IdA THEN ProfileA ELSE ProfileB

\* What a GET of url returns when the endpoint is up: the document of the iD
\* in the URL, or an error status for a URL of no iD.
ServerAnswer(url) ==
    IF url = UserInfoURLOf(IdA) THEN Fetched(ProfileA)
    ELSE IF url = UserInfoURLOf(IdB) THEN Fetched(ProfileB)
    ELSE FetchFailed

\* --------------------------------------------------------------------- state

VARIABLES
    userInfoURL,  \* p.userInfoURL, the provider instance's field
    pc,           \* pc[c]: where activation c of FetchAuthUser stands
    token,        \* token[c]: its argument
    iD,           \* iD[c]: its local iD
    req,          \* req[c]: its local req
    resp,         \* resp[c]: its locals data and err after line 62
    ret,          \* ret[c]: what it returned
    built,        \* built[c]: how often it ran line 56
    sentTo,       \* sentTo[c]: the URLs of the requests it sent, in order
    urlAtEntry,   \* urlAtEntry[c]: p.userInfoURL when it was entered
    lastValid     \* the iD of the latest call entered with a non-empty string iD

vars == <<userInfoURL, pc, token, iD, req, resp, ret, built, sentTo, urlAtEntry, lastValid>>

\* NewORCIDProvider: userInfoURL is "", and no call is in progress.
Init ==
    /\ userInfoURL = ""
    /\ pc = [c \in Calls |-> "idle"]
    /\ token = [c \in Calls |-> NoToken]
    /\ iD = [c \in Calls |-> ""]
    /\ req = [c \in Calls |-> NoRequest]
    /\ resp = [c \in Calls |-> FetchFailed]
    /\ ret = [c \in Calls |-> NoResult]
    /\ built = [c \in Calls |-> 0]
    /\ sentTo = [c \in Calls |-> <<>>]
    /\ urlAtEntry = [c \in Calls |-> ""]
    /\ lastValid = ""

\* p.FetchAuthUser(tok) is called.
Call(c) ==
    /\ pc[c] = "idle"
    /\ \E tok \in Tokens :
        /\ token' = [token EXCEPT ![c] = tok]
        /\ lastValid' = IF tok.orcid.t = "string" /\ tok.orcid.s # ""
                        THEN tok.orcid.s ELSE lastValid
    /\ pc' = [pc EXCEPT ![c] = "check"]
    /\ urlAtEntry' = [urlAtEntry EXCEPT ![c] = userInfoURL]
    /\ UNCHANGED <<userInfoURL, iD, req, resp, ret, built, sentTo>>

\* lines 48-51
CheckIdentifier(c) ==
    /\ pc[c] = "check"
    /\ LET a == AssertString(token[c].orcid)
       IN  IF IdentifierOK(a)
           THEN /\ iD' = [iD EXCEPT ![c] = a.iD]
                /\ pc' = [pc EXCEPT ![c] = "seturl"]
                /\ ret' = ret
           ELSE /\ ret' = [ret EXCEPT ![c] = Failure("Failed to get ORCID iD from OAuth2 token")]
                /\ pc' = [pc EXCEPT ![c] = "done"]
                /\ iD' = iD
    /\ UNCHANGED <<userInfoURL, token, req, resp, built, sentTo, urlAtEntry, lastValid>>

\* Mutant: the field is set only while it is empty.
SetUserInfoURLOnce(c) ==
    /\ pc[c] = "seturl"
    /\ userInfoURL' = IF userInfoURL = "" THEN UserInfoURLOf(iD[c]) ELSE userInfoURL
    /\ pc' = [pc EXCEPT ![c] = "newreq"]
    /\ UNCHANGED <<token, iD, req, resp, ret, built, sentTo, urlAtEntry, lastValid>>

\* line 52
SetUserInfoURL(c) ==
    /\ pc[c] = "seturl"
    /\ userInfoURL' = UserInfoURLOf(iD[c])
    /\ pc' = [pc EXCEPT ![c] = "newreq"]
    /\ UNCHANGED <<token, iD, req, resp, ret, built, sentTo, urlAtEntry, lastValid>>

\* lines 56-61.  The read of p.userInfoURL is not ordered with the writes of
\* other activations: it yields what the field holds, or what this activation
\* stored in it on line 52.
BuildRequest(c) ==
    /\ pc[c] = "newreq"
    /\ built' = [built EXCEPT ![c] = @ + 1]
    /\ \E u \in {userInfoURL, UserInfoURLOf(iD[c])} :
        IF URLParses(u)
        THEN /\ req' = [req EXCEPT ![c] = NewRequest(u)]
             /\ pc' = [pc EXCEPT ![c] = "send"]
             /\ ret' = ret
        ELSE /\ ret' = [ret EXCEPT ![c] = Failure("parse url: invalid URL escape")]
             /\ pc' = [pc EXCEPT ![c] = "done"]
             /\ req' = req
    /\ UNCHANGED <<userInfoURL, token, iD, resp, sentTo, urlAtEntry, lastValid>>

\* Mutant: a failed fetch is tried once more.
SendWithRetry(c, answers) ==
    /\ pc[c] = "send"
    /\ sentTo' = [sentTo EXCEPT ![c] = Append(@, req[c].url)]
    /\ \E r \in answers :
        /\ resp' = [resp EXCEPT ![c] = r]
        /\ IF r.err # "" /\ Len(sentTo[c]) = 0
           THEN /\ ret' = ret
                /\ pc' = pc
           ELSE IF r.err # ""
           THEN /\ ret' = [ret EXCEPT ![c] = Failure(r.err)]
                /\ pc' = [pc EXCEPT ![c] = "done"]
           ELSE /\ ret' = ret
                /\ pc' = [pc EXCEPT ![c] = "parse"]
    /\ UNCHANGED <<userInfoURL, token, iD, req, built, urlAtEntry, lastValid>>

\* lines 62-65, with the answers sendRawUserInfoRequest may come back with
SendWith(c, answers) ==
    /\ pc[c] = "send"
    /\ sentTo' = [sentTo EXCEPT ![c] = Append(@, req[c].url)]
    /\ \E r \in answers :
        /\ resp' = [resp EXCEPT ![c] = r]
        /\ IF r.err # ""
           THEN /\ ret' = [ret EXCEPT ![c] = Failure(r.err)]
                /\ pc' = [pc EXCEPT ![c] = "done"]
           ELSE /\ ret' = ret
                /\ pc' = [pc EXCEPT ![c] = "parse"]
    /\ UNCHANGED <<userInfoURL, token, iD, req, built, urlAtEntry, lastValid>>

\* lines 62-65, the endpoint answering with any body
Send(c) == SendWith(c, Answers)

\* lines 62-65, the endpoint answering with the document of the requested URL
SendToServer(c) == SendWith(c, FetchErrors \cup {ServerAnswer(req[c].url)})

\* lines 67-120
ParseAndReturn(c) ==
    /\ pc[c] = "parse"
    /\ ret' = [ret EXCEPT ![c] = Resolve(resp[c].data, iD[c], token[c])]
    /\ pc' = [pc EXCEPT ![c] = "done"]
    /\ UNCHANGED <<userInfoURL, token, iD, req, resp, built, sentTo, urlAtEntry, lastValid>>

\* The caller takes the result; the activation and its locals are gone.
Return(c) ==
    /\ pc[c] = "done"
    /\ pc' = [pc EXCEPT ![c] = "idle"]
    /\ token' = [token EXCEPT ![c] = NoToken]
    /\ iD' = [iD EXCEPT ![c] = ""]
    /\ req' = [req EXCEPT ![c] = NoRequest]
    /\ resp' = [resp EXCEPT ![c] = FetchFailed]
    /\ ret' = [ret EXCEPT ![c] = NoResult]
    /\ built' = [built EXCEPT ![c] = 0]
    /\ sentTo' = [sentTo EXCEPT ![c] = <<>>]
    /\ urlAtEntry' = [urlAtEntry EXCEPT ![c] = ""]
    /\ UNCHANGED <<userInfoURL, lastValid>>

\* One caller at a time: calls on the provider follow one another.
Next ==
    \/ Call(MainCall)
    \/ CheckIdentifier(MainCall)
    \/ SetUserInfoURL(MainCall)
    \/ BuildRequest(MainCall)
    \/ Send(MainCall)
    \/ ParseAndReturn(MainCall)
    \/ Return(MainCall)

Spec == Init /\ [][Next]_vars

\* Concurrent logins: activations on the same provider instance interleave.
NextConcurrent ==
    \E c \in Calls :
        \/ Call(c)
        \/ CheckIdentifier(c)
        \/ SetUserInfoURL(c)
        \/ BuildRequest(c)
        \/ SendToServer(c)
        \/ ParseAndReturn(c)
        \/ Return(c)

SpecConcurrent == Init /\ [][NextConcurrent]_vars

\* -------------------------------------------------------------------- claims

\* Where a call stands before line 52 has run, and after it has.
BeforeSetURL == {"check", "done"}
AfterSetURL == {"newreq", "send", "parse", "done"}

\* The token of activation c carries a non-empty string under "orcid".
HasIdentifier(c) == token[c].orcid.t = "string" /\ token[c].orcid.s # ""

Entered(c) == pc[c] # "idle"
Returned(c) == pc[c] = "done"
Succeeded(c) == pc[c] = "done" /\ ret[c].user # <<>>

\* The typed projection of the body activation c fetched.
Extracted(c) == ParseTyped(resp[c].data).val

\* C1: a call whose token has no "orcid" extra field, an empty one or one that
\* is no string returns an error and no identity, and neither builds nor sends
\* a request.
C1_MissingIdentifierFails ==
    \A c \in Calls :
        (Entered(c) /\ ~HasIdentifier(c)) =>
            /\ pc[c] \in BeforeSetURL
            /\ built[c] = 0
            /\ req[c] = NoRequest
            /\ sentTo[c] = <<>>
            /\ Returned(c) => (ret[c].user = <<>> /\ ret[c].err # "")

C1_Witness ==
    \E c \in Calls :
        Returned(c) /\ token[c].orcid = JStr("") /\ ret[c].err # "" /\ sentTo[c] = <<>>

\* C2: in every interleaving of calls on one provider instance, each call
\* sends its request to the endpoint of its own token's identifier, and the
\* identity it returns is the one made from the profile of its own Id.
C2_ConcurrentCallsIndependent ==
    \A c \in Calls :
        /\ \A i \in 1..Len(sentTo[c]) :
              sentTo[c][i] = "https://pub.orcid.org/v3.0/" \o token[c].orcid.s \o "/person"
        /\ Succeeded(c) =>
              LET u == ret[c].user[1]
                  own == ParseTyped(ProfileOf(u.Id)).val
              IN  /\ u.Id = token[c].orcid.s
                  /\ u.Name = NameOf(own)
                  /\ u.Email = EmailOf(own)
                  /\ u.RawUser = ParseRaw(ProfileOf(u.Id)).val

\* C3: on success Name is credit-name when that is non-empty, else given-names
\* and family-name separated by one space when family-name is non-empty, else
\* given-names alone.
C3_NameFallback ==
    \A c \in Calls :
        Succeeded(c) =>
            LET credit == Extracted(c).Name.CreditName.Value
                given == Extracted(c).Name.GivenNames.Value
                family == Extracted(c).Name.FamilyName.Value
                name == ret[c].user[1].Name
            IN  /\ credit # "" => name = credit
                /\ (credit = "" /\ family # "") => name = given \o " " \o family
                /\ (credit = "" /\ family = "") => name = given

C3_Witness ==
    \E c \in Calls :
        /\ Succeeded(c)
        /\ Extracted(c).Name.CreditName.Value = ""
        /\ Extracted(c).Name.GivenNames.Value = "Ada"
        /\ Extracted(c).Name.FamilyName.Value = "Lovelace"
        /\ ret[c].user[1].Name = "Ada Lovelace"

\* C4: on success the identity's Name is never the empty string.
C4_NameNeverEmpty ==
    \A c \in Calls : Succeeded(c) => ret[c].user[1].Name # ""

\* C5: on success Username and Id are equal, equal to the string of the
\* token's "orcid" extra field, and non-empty.
C5_IdentifierPropagation ==
    \A c \in Calls :
        Succeeded(c) =>
            LET u == ret[c].user[1]
            IN  /\ u.Username = u.Id
                /\ token[c].orcid.t = "string"
                /\ u.Id = token[c].orcid.s
                /\ u.Id # ""

C5_Witness ==
    \E c \in Calls :
        /\ Succeeded(c)
        /\ token[c].orcid = JStr(IdB)
        /\ ret[c].user[1].Id = IdB
        /\ ret[c].user[1].Username = IdB

\* C6: a call returns either an identity and no error or an error and no
\* identity; it returns an identity exactly when the identifier check, the
\* request construction, the fetch and both parses of the fetched bytes all
\* succeeded.
C6_NoPartialIdentity ==
    \A c \in Calls :
        Returned(c) =>
            /\ (ret[c].user = <<>>) # (ret[c].err = "")
            /\ (ret[c].user # <<>>) <=>
                  /\ HasIdentifier(c)
                  /\ req[c] # NoRequest
                  /\ Len(sentTo[c]) = 1
                  /\ resp[c].err = ""
                  /\ ~ParseRaw(resp[c].data).err
                  /\ ~ParseTyped(resp[c].data).err

C6_Witness ==
    \E c \in Calls :
        /\ Returned(c)
        /\ resp[c].err = ""
        /\ ~ParseRaw(resp[c].data).err
        /\ ParseTyped(resp[c].data).err
        /\ ret[c].user = <<>>
        /\ ret[c].err # ""

\* C7, as claimed: a call whose token carries a non-empty string identifier
\* has sent exactly one request when it returns.
C7_ExactlyOneRequest ==
    \A c \in Calls : (Returned(c) /\ HasIdentifier(c)) => Len(sentTo[c]) = 1

\* C7, amended: a call sends at most one request and never re-sends it; when a
\* call with a non-empty string identifier returns it has sent exactly one
\* request if the request could be built, and none if it could not.
C7_AtMostOneRequest ==
    \A c \in Calls :
        /\ Len(sentTo[c]) <= 1
        /\ pc[c] = "parse" => Len(sentTo[c]) = 1
        /\ (Returned(c) /\ HasIdentifier(c)) =>
              Len(sentTo[c]) = (IF req[c] # NoRequest THEN 1 ELSE 0)

C7_Witness ==
    \E c \in Calls :
        Returned(c) /\ HasIdentifier(c) /\ resp[c].err # "" /\ Len(sentTo[c]) = 1

\* C8: on success Email is the address of the first entry of the profile's
\* email list when the list is non-empty and "" when it is empty; an empty
\* list does not make the call fail.
C8_EmailSelection ==
    \A c \in Calls :
        /\ Succeeded(c) =>
              LET list == Extracted(c).Emails.Email
              IN  ret[c].user[1].Email = (IF list = <<>> THEN "" ELSE Head(list).Email)
        /\ ( /\ Returned(c)
             /\ Len(sentTo[c]) = 1
             /\ resp[c].err = ""
             /\ ~ParseRaw(resp[c].data).err
             /\ ~ParseTyped(resp[c].data).err
             /\ Extracted(c).Emails.Email = <<>> ) => ret[c].user # <<>>

C8_Witness ==
    \E c \in Calls :
        /\ Succeeded(c)
        /\ Len(Extracted(c).Emails.Email) = 2
        /\ Extracted(c).Emails.Email[2].Email = "b@x.com"
        /\ ret[c].user[1].Email = "a@x.com"

\* C9: on success RawUser has every top-level key of the fetched body, also
\* the keys the typed projection does not model.
C9_RawUserKeepsKeys ==
    \A c \in Calls :
        (Succeeded(c) /\ resp[c].data.v.t = "object") =>
            \A i \in 1..Len(resp[c].data.v.members) :
                resp[c].data.v.members[i][1] \in DOMAIN ret[c].user[1].RawUser

C9_Witness ==
    \E c \in Calls :
        /\ Succeeded(c)
        /\ resp[c].data.v.t = "object"
        /\ \E i \in 1..Len(resp[c].data.v.members) : resp[c].data.v.members[i][1] = "path"
        /\ "name" \in DOMAIN ret[c].user[1].RawUser
        /\ "path" \in DOMAIN ret[c].user[1].RawUser

\* C10: with calls following one another, a call that fails the identifier
\* check leaves p.userInfoURL as it found it; a call that passes it sets
\* p.userInfoURL to the URL of its iD, and the value stays whatever the call
\* then returns; between calls p.userInfoURL is "" or the URL of the latest
\* call whose token had a non-empty string identifier.
C10_UserInfoURLEffect ==
    /\ \A c \in Calls :
          (Returned(c) /\ ~HasIdentifier(c)) => userInfoURL = urlAtEntry[c]
    /\ \A c \in Calls :
          (pc[c] \in AfterSetURL /\ HasIdentifier(c)) =>
              userInfoURL = "https://pub.orcid.org/v3.0/" \o token[c].orcid.s \o "/person"
    /\ (\A c \in Calls : pc[c] = "idle") =>
          userInfoURL = (IF lastValid = "" THEN ""
                         ELSE "https://pub.orcid.org/v3.0/" \o lastValid \o "/person")

C10_Witness ==
    \E c \in Calls :
        /\ Returned(c)
        /\ ~HasIdentifier(c)
        /\ urlAtEntry[c] = "https://pub.orcid.org/v3.0/0000-0001-2345-6789/person"
        /\ userInfoURL = urlAtEntry[c]

====
